---- MODULE Spec2Model ----
(***************************************************************************)
(* A model of scrape_followups.py: CallPotentialScraper.run, login,        *)
(* scrape_table (table location, polling, column resolution, row           *)
(* extraction) and save_to_database.                                       *)
(*                                                                         *)
(* A text (Python str) is a sequence of one-character strings, so that     *)
(* strip, replace, upper, join, the "in" test, isdigit and int are         *)
(* computed and not assumed.                                               *)
(***************************************************************************)
EXTENDS Integers, Sequences, FiniteSets, TLC

(***************************************************************************)
(* Python str operations                                                   *)
(***************************************************************************)
Whitespace == {" ", "\n", "\t"}

Digits == <<"0", "1", "2", "3", "4", "5", "6", "7", "8", "9">>

LowerChars == <<"a", "b", "c", "d", "e", "f", "g", "h", "i", "j", "k", "l", "m",
                "n", "o", "p", "q", "r", "s", "t", "u", "v", "w", "x", "y", "z">>

UpperChars == <<"A", "B", "C", "D", "E", "F", "G", "H", "I", "J", "K", "L", "M",
                "N", "O", "P", "Q", "R", "S", "T", "U", "V", "W", "X", "Y", "Z">>

IsDigitChar(c) == \E i \in 1..Len(Digits) : Digits[i] = c

DigitVal(c) == (CHOOSE i \in 1..Len(Digits) : Digits[i] = c) - 1

\* str.upper() on one character
UpperChar(c) ==
    IF \E i \in 1..Len(LowerChars) : LowerChars[i] = c
    THEN UpperChars[CHOOSE i \in 1..Len(LowerChars) : LowerChars[i] = c]
    ELSE c

\* s.upper()
Upper(s) == [i \in 1..Len(s) |-> UpperChar(s[i])]

RECURSIVE LStrip(_)
LStrip(s) ==
    IF s = <<>> THEN s
    ELSE IF Head(s) \in Whitespace THEN LStrip(Tail(s)) ELSE s

RECURSIVE RStrip(_)
RStrip(s) ==
    IF s = <<>> THEN s
    ELSE IF s[Len(s)] \in Whitespace THEN RStrip(SubSeq(s, 1, Len(s) - 1)) ELSE s

\* s.strip()
Strip(s) == RStrip(LStrip(s))

\* s.replace(c, '') for a one-character c
Remove(s, c) == SelectSeq(s, LAMBDA x : x # c)

\* s.replace(c, d) for one-character c and d
Replace(s, c, d) == [i \in 1..Len(s) |-> IF s[i] = c THEN d ELSE s[i]]

\* sub in s
Contains(sub, s) ==
    \E i \in 0..(Len(s) - Len(sub)) : SubSeq(s, i + 1, i + Len(sub)) = sub

\* ' '.join(texts)
RECURSIVE Join(_)
Join(texts) ==
    IF texts = <<>> THEN <<>>
    ELSE IF Len(texts) = 1 THEN texts[1]
    ELSE texts[1] \o <<" ">> \o Join(Tail(texts))

\* s.isdigit() (ASCII digits)
IsDigit(s) == s # <<>> /\ \A i \in 1..Len(s) : IsDigitChar(s[i])

\* the value of a text of digits
RECURSIVE DigitsValue(_)
DigitsValue(s) ==
    IF s = <<>> THEN 0
    ELSE 10 * DigitsValue(SubSeq(s, 1, Len(s) - 1)) + DigitVal(s[Len(s)])

\* the digits part of an int() literal: digits, single underscores between them
IsIntBody(s) ==
    /\ s # <<>>
    /\ \A i \in 1..Len(s) : IsDigitChar(s[i]) \/ s[i] = "_"
    /\ s[1] # "_"
    /\ s[Len(s)] # "_"
    /\ \A i \in 1..(Len(s) - 1) : ~(s[i] = "_" /\ s[i + 1] = "_")

\* int(s): [ok |-> TRUE, val |-> n], or ok = FALSE where Python raises ValueError
PyInt(s) ==
    LET t == Strip(s)
        signed == t # <<>> /\ Head(t) \in {"+", "-"}
        body == IF signed THEN Tail(t) ELSE t
    IN  IF IsIntBody(body)
        THEN [ok |-> TRUE,
              val |-> IF signed /\ Head(t) = "-"
                      THEN 0 - DigitsValue(Remove(body, "_"))
                      ELSE DigitsValue(Remove(body, "_"))]
        ELSE [ok |-> FALSE, val |-> 0]

(***************************************************************************)
(* Texts                                                                   *)
(***************************************************************************)
kLOCATION == <<"L", "O", "C", "A", "T", "I", "O", "N">>
kFOLLOW == <<"F", "O", "L", "L", "O", "W">>
kFOLLOW_UP == <<"F", "O", "L", "L", "O", "W", "-", "U", "P">>
kFOLLOW_UP_SP == <<"F", "O", "L", "L", "O", "W", " ", "U", "P">>
kUNPROCESSED == <<"U", "N", "P", "R", "O", "C", "E", "S", "S", "E", "D">>

hLocation == <<"L", "o", "c", "a", "t", "i", "o", "n">>
hFollowUps == <<"F", "o", "l", "l", "o", "w", "-", "U", "p", "s">>
hUnprocessed == <<"U", "n", "p", "r", "o", "c", "e", "s", "s", "e", "d">>
hWrong == <<"W", "r", "o", "n", "g">>
hHeaders == <<"H", "e", "a", "d", "e", "r", "s">>
hCalls == <<"C", "a", "l", "l", "s">>
hMissed == <<"M", "i", "s", "s", "e", "d">>
hTexts == <<"T", "e", "x", "t", "s">>
hFollowups == <<"F", "o", "l", "l", "o", "w", "u", "p", "s">>
hFollowNlUp == <<"F", "o", "l", "l", "o", "w", "\n", "U", "p">>
hLocationNl == <<"\n", "l", "o", "c", "a", "t", "i", "o", "n", " ">>
hLoca == <<"L", "o", "c", "a">>
hTion == <<"t", "i", "o", "n">>
hFollow == <<"F", "o", "l", "l", "o", "w">>

tSiteA == <<"S", "i", "t", "e", " ", "A">>
tSiteB == <<"S", "i", "t", "e", " ", "B">>
tSiteC == <<"S", "i", "t", "e", " ", "C">>
tSiteD == <<"S", "i", "t", "e", " ", "D">>
tSiteE == <<"S", "i", "t", "e", " ", "E">>
tSiteNlF == <<"S", "i", "t", "e", "\n", "F">>
tPadSiteG == <<" ", "S", "i", "t", "e", " ", "G", " ">>
tSiteG == <<"S", "i", "t", "e", " ", "G">>
tEmpty == <<>>
t10 == <<"1", "0">>
t3 == <<"3">>
t0 == <<"0">>
t5 == <<"5">>
tNA == <<"N", "/", "A">>
t1c234 == <<"1", ",", "2", "3", "4">>
tPad56 == <<" ", "5", "6", " ">>
tDashes == <<"-", "-">>
tMinus5 == <<"-", "5">>
t1sp000 == <<"1", " ", "0", "0", "0">>

(***************************************************************************)
(* The page: frames, tables, and the rows a table shows while it hydrates  *)
(***************************************************************************)
\* a td: its inner text and, when it has one, the text of its p.location-name
Td(t) == [text |-> t, hasP |-> FALSE, p |-> <<>>]
TdP(t) == [text |-> t, hasP |-> TRUE, p |-> t]

\* a tr: whether it is under a tbody, and its td cells (none for a header row)
Tr(cells) == [body |-> TRUE, tds |-> cells]
TrNoBody(cells) == [body |-> FALSE, tds |-> cells]

BigRows == 201
BigNonZero == 10
ManyRows == 11

SnapEmpty == <<>>

SnapHeaderOnly == <<TrNoBody(<<>>)>>

SnapZeros ==
    <<Tr(<<TdP(tSiteA), Td(t0), Td(t0), Td(t0), Td(t0), Td(t0)>>),
      Tr(<<Td(tSiteB), Td(t0), Td(t0), Td(t0), Td(t0), Td(t0)>>)>>

\* 9 non-zero cells
SnapPartial ==
    <<Tr(<<TdP(tSiteA), Td(t10), Td(t3), Td(t5), Td(t5), Td(t5)>>),
      Tr(<<Td(tSiteB), Td(t0), Td(t0), Td(t5), Td(t5), Td(t5)>>),
      Tr(<<Td(tSiteC), Td(tNA), Td(t5), Td(t0), Td(t0), Td(t0)>>)>>

\* 10 non-zero cells
SnapFull ==
    <<Tr(<<TdP(tSiteA), Td(t10), Td(t3), Td(t5), Td(t5), Td(t5)>>),
      Tr(<<Td(tSiteB), Td(t0), Td(t0), Td(t0), Td(t0), Td(t0)>>),
      Tr(<<Td(tSiteC), Td(tNA), Td(t5), Td(t5), Td(t5), Td(t5)>>),
      Tr(<<Td(tSiteE), Td(t5)>>)>>

\* 11 non-zero cells as the poll counts them
SnapMessy ==
    <<Tr(<<Td(tPadSiteG), Td(t1c234), Td(tPad56), Td(t5), Td(t5), Td(t5)>>),
      Tr(<<Td(tEmpty), Td(tMinus5), Td(t3), Td(t5), Td(t5), Td(t5)>>),
      Tr(<<Td(tSiteNlF), Td(t1sp000), Td(t5), Td(t0), Td(t0), Td(t0)>>),
      Tr(<<Td(tSiteD), Td(tDashes), Td(t5)>>),
      Tr(<<Td(tSiteC), Td(tEmpty), Td(t0)>>)>>

\* no tbody: a header row, then 10 non-zero cells
SnapNoTbody ==
    <<TrNoBody(<<>>),
      TrNoBody(<<Td(tSiteA), Td(t10), Td(t3), Td(t5), Td(t5)>>),
      TrNoBody(<<Td(tSiteB), Td(t5), Td(t5), Td(t5), Td(t5)>>),
      TrNoBody(<<Td(tSiteC), Td(t3), Td(t3), Td(t0), Td(t0)>>)>>

\* BigRows rows, the first BigNonZero of them with one non-zero cell
SnapBig ==
    [i \in 1..BigRows |->
        Tr(<<Td(tSiteA), Td(IF i <= BigNonZero THEN t5 ELSE t0), Td(tDashes)>>)]

\* the location text of row i of SnapMany
ManyName(i) == <<"S", Digits[(i \div 10) + 1], Digits[(i % 10) + 1]>>

\* ManyRows rows, each a location of its own and two counts
SnapMany == [i \in 1..ManyRows |-> Tr(<<Td(ManyName(i)), Td(t5), Td(t3)>>)]

TblNoHeaders == [headers |-> <<>>, snaps |-> {SnapFull}]
TblWrong == [headers |-> <<hWrong, hHeaders>>, snaps |-> {SnapFull}]
TblLocOnly == [headers |-> <<hLocation, hCalls>>, snaps |-> {SnapFull}]
TblSplit == [headers |-> <<hLoca, hTion, hFollow>>, snaps |-> {SnapFull}]
TblGood ==
    [headers |-> <<hLocation, hFollowUps, hUnprocessed, hCalls, hMissed, hTexts>>,
     snaps |-> {SnapEmpty, SnapHeaderOnly, SnapZeros, SnapPartial, SnapFull, SnapMessy}]
TblGoodNl ==
    [headers |-> <<hLocationNl, hFollowNlUp, hUnprocessed>>,
     snaps |-> {SnapEmpty, SnapNoTbody}]
TblFollowups ==
    [headers |-> <<hLocation, hFollowups, hUnprocessed>>,
     snaps |-> {SnapZeros, SnapFull}]
TblNoUnprocessed ==
    [headers |-> <<hFollowUps, hLocation>>, snaps |-> {SnapPartial, SnapFull}]
TblBig ==
    [headers |-> <<hLocation, hFollowUps, hUnprocessed>>,
     snaps |-> {SnapZeros, SnapBig}]
TblMany ==
    [headers |-> <<hLocation, hFollowUps, hUnprocessed>>, snaps |-> {SnapMany}]

\* page.frames: each frame is the sequence of its tables, in document order
PageTest == <<<<TblNoHeaders>>, <<TblGood>>>>
PageNone == <<<<TblWrong, TblLocOnly>>, <<>>, <<TblSplit, TblNoHeaders>>>>
PageFirst == <<<<TblLocOnly, TblFollowups, TblGood>>>>
PageFrames == <<<<TblWrong>>, <<>>, <<TblGoodNl>>, <<TblGood>>>>
PageNoUnprocessed == <<<<TblSplit, TblNoUnprocessed>>, <<TblGood>>>>
PageBig == <<<<TblBig>>>>
PageMany == <<<<TblMany>>>>

Pages ==
    {PageTest, PageNone, PageFirst, PageFrames, PageNoUnprocessed, PageBig,
     PageMany}

(***************************************************************************)
(* The destination table and its two stored procedures                     *)
(***************************************************************************)
\* a row of the previous snapshot
OldRow ==
    [ts |-> "old", id |-> 0, location |-> tSiteA, followups |-> 7,
     unprocessed |-> 1, lcode |-> "L001"]

\* EXEC Testing.TruncateOutstandingFollowUpSnapshot
TruncateSP(tbl) == {}

\* EXEC Testing.GetOutstandingCPFollowUps: the row it inserts
InsertSP(tbl, ts, id, record, lcode) ==
    tbl \cup {[ts |-> ts, id |-> id, location |-> record.location,
               followups |-> record.followups,
               unprocessed |-> record.unprocessed, lcode |-> lcode]}

\* what the write procedure and fetchone can do for one record
Outcomes == {"code", "nocode", "norow", "norow_nowrite", "error"}

\* the outcomes other than a result row: no row, or an exception
Faults == {"norow", "norow_nowrite", "error"}

\* how many of a run's writes may end in a fault
MaxFaults == 1

\* the location names the write procedure can resolve to a code
AllLocations ==
    {tSiteA, tSiteB, tSiteC, tSiteG, tSiteNlF, tEmpty}
        \cup {ManyName(i) : i \in 1..ManyRows}

KnownSets == {{}, {tSiteA, tSiteG, ManyName(1)}, AllLocations}

(***************************************************************************)
(* State                                                                   *)
(***************************************************************************)
VARIABLES
    pc,                 \* the step run() is at
    page,               \* page.frames
    username,           \* keyring has the CallPotential credentials
    dbpassword,         \* keyring has the database password
    error,              \* the exception propagating out of run(), or "none"
    screenshots,        \* the paths page.screenshot() was called with
    browser,            \* "none", "open", "closed"
    fi, ti,             \* the frame and the table the locator is at
    table,              \* <<frame, index>> of the located table, <<>> for None
    attempts,           \* iterations of the poll loop entered so far
    rows,               \* the rows collected by the last attempt
    has_real_data,      \* the poll loop left through its break
    rowReads,           \* times the rows of the table were collected
    reachedAt,          \* the first attempt that met the threshold, 0 if none
    rowsAt,             \* the rows collected on that attempt
    location_idx, followup_idx, unprocessed_idx,
    error_headers,      \* the header texts the MissingColumns message names
    ri,                 \* rows the extraction loop has been through
    data,               \* the records extracted so far
    db_connection,      \* "none", "open", "closed"
    cursor,             \* "none", "open", "closed"
    committed,          \* the destination table as committed
    working,            \* the destination table as the open transaction sees it
    truncated,          \* the truncate has been committed in this run
    writes,             \* calls of the write procedure so far
    si,                 \* records save_to_database has been through
    inserted, failed, locations_without_lcode,
    known,              \* the location names the write procedure resolves
    faults,             \* writes that ended in a fault so far
    outcomes,           \* the outcome of each write so far, in order
    commits,            \* calls of db_connection.commit() so far
    pending,            \* a procedure ran since the last commit or rollback
    report,             \* the names the without-Lcode warning printed
    report_more         \* the count its "... and N more" line printed

scrapeVars ==
    <<fi, ti, table, attempts, rows, has_real_data, rowReads, reachedAt, rowsAt,
      location_idx, followup_idx, unprocessed_idx, error_headers, ri, data>>

dbVars ==
    <<cursor, committed, working, truncated, writes, si, inserted, failed,
      locations_without_lcode, known, faults, outcomes, commits, pending,
      report, report_more>>

vars ==
    <<pc, page, username, dbpassword, error, screenshots, browser, scrapeVars,
      db_connection, dbVars>>

max_retries == 20

\* locations_without_lcode[:10]
report_limit == 10

NoIdx == -1

snapshot_time == "now"

Max2(a, b) == IF a >= b THEN a ELSE b

Init ==
    /\ pc = "get_credentials"
    /\ page \in Pages
    /\ username \in BOOLEAN
    /\ dbpassword \in BOOLEAN
    /\ error = "none"
    /\ screenshots = {}
    /\ browser = "none"
    /\ fi = 1 /\ ti = 1
    /\ table = <<>>
    /\ attempts = 0
    /\ rows = <<>>
    /\ has_real_data = FALSE
    /\ rowReads = 0
    /\ reachedAt = 0
    /\ rowsAt = <<>>
    /\ location_idx = NoIdx /\ followup_idx = NoIdx /\ unprocessed_idx = NoIdx
    /\ error_headers = <<>>
    /\ ri = 0
    /\ data = <<>>
    /\ db_connection = "none"
    /\ cursor = "none"
    /\ committed = {OldRow}
    /\ working = {OldRow}
    /\ truncated = FALSE
    /\ writes = 0
    /\ si = 0
    /\ inserted = 0 /\ failed = 0
    /\ locations_without_lcode = <<>>
    /\ known \in (IF username /\ dbpassword THEN KnownSets ELSE {{}})
    /\ faults = 0
    /\ outcomes = <<>>
    /\ commits = 0
    /\ pending = FALSE
    /\ report = <<>>
    /\ report_more = 0

(***************************************************************************)
(* run(): acquisition and login                                            *)
(***************************************************************************)
\* an exception leaving the inner try of run(): only PlaywrightTimeout is caught
RaiseInTry(kind) ==
    /\ error' = kind
    /\ pc' = IF kind = "LoginTimeout" THEN "except_timeout" ELSE "browser_close"

get_credentials ==
    /\ pc = "get_credentials"
    /\ IF username
       THEN pc' = "get_db_connection" /\ error' = error
       ELSE pc' = "db_close" /\ error' = "CredentialsMissing"
    /\ UNCHANGED <<page, username, dbpassword, screenshots, browser, scrapeVars,
                   db_connection, dbVars>>

get_db_connection ==
    /\ pc = "get_db_connection"
    /\ IF dbpassword
       THEN pc' = "launch" /\ error' = error /\ db_connection' = "open"
       ELSE pc' = "db_close" /\ error' = "DbCredentialsMissing"
            /\ db_connection' = db_connection
    /\ UNCHANGED <<page, username, dbpassword, screenshots, browser, scrapeVars,
                   dbVars>>

\* async with async_playwright(): p.chromium.launch()
launch_browser ==
    /\ pc = "launch"
    /\ \E ok \in BOOLEAN :
          IF ok
          THEN browser' = "open" /\ pc' = "new_context" /\ error' = error
          ELSE browser' = browser /\ pc' = "playwright_exit"
               /\ error' = "PlaywrightError"
    /\ UNCHANGED <<page, username, dbpassword, screenshots, scrapeVars,
                   db_connection, dbVars>>

\* browser.new_context(), before the try whose finally closes the browser
new_context ==
    /\ pc = "new_context"
    /\ \E ok \in BOOLEAN :
          IF ok
          THEN pc' = "new_page" /\ error' = error
          ELSE pc' = "playwright_exit" /\ error' = "PlaywrightError"
    /\ UNCHANGED <<page, username, dbpassword, screenshots, browser, scrapeVars,
                   db_connection, dbVars>>

\* context.new_page(), before the try whose finally closes the browser
new_page ==
    /\ pc = "new_page"
    /\ \E ok \in BOOLEAN :
          IF ok
          THEN pc' = "login" /\ error' = error
          ELSE pc' = "playwright_exit" /\ error' = "PlaywrightError"
    /\ UNCHANGED <<page, username, dbpassword, screenshots, browser, scrapeVars,
                   db_connection, dbVars>>

login ==
    /\ pc = "login"
    /\ \E ok \in BOOLEAN :
          IF ok THEN pc' = "locate" /\ error' = error
          ELSE RaiseInTry("LoginTimeout")
    /\ UNCHANGED <<page, username, dbpassword, screenshots, browser, scrapeVars,
                   db_connection, dbVars>>

\* except_timeout without the screenshot
except_timeout_no_screenshot ==
    /\ pc = "except_timeout"
    /\ pc' = "browser_close"
    /\ UNCHANGED <<page, username, dbpassword, error, screenshots, browser,
                   scrapeVars, db_connection, dbVars>>

\* except PlaywrightTimeout: a timestamped screenshot, then raise
except_timeout ==
    /\ pc = "except_timeout"
    /\ screenshots' = screenshots \cup {"error_screenshot"}
    /\ pc' = "browser_close"
    /\ UNCHANGED <<page, username, dbpassword, error, browser, scrapeVars,
                   db_connection, dbVars>>

(***************************************************************************)
(* scrape_table: locating the table                                        *)
(***************************************************************************)
\* ' '.join(header_texts).upper()
header_clean(headers) == Upper(Join(headers))

\* is_target with "or" for "and"
is_target_either(tbl) ==
    /\ tbl.headers # <<>>
    /\ \/ Contains(kLOCATION, header_clean(tbl.headers))
       \/ Contains(kFOLLOW, header_clean(tbl.headers))

\* the test a table passes to become the target
is_target(tbl) ==
    /\ tbl.headers # <<>>
    /\ Contains(kLOCATION, header_clean(tbl.headers))
    /\ Contains(kFOLLOW, header_clean(tbl.headers))

\* one step of the two nested loops over frames and tables
locate_step ==
    /\ pc = "locate"
    /\ fi <= Len(page)
    /\ IF ti > Len(page[fi])
       THEN \* the frame has no more tables, table is still None: next frame
            /\ fi' = fi + 1 /\ ti' = 1
            /\ UNCHANGED <<table, pc>>
       ELSE IF is_target(page[fi][ti])
       THEN \* table = t; break; break
            /\ table' = <<fi, ti>>
            /\ pc' = "poll"
            /\ UNCHANGED <<fi, ti>>
       ELSE /\ ti' = ti + 1
            /\ UNCHANGED <<fi, table, pc>>
    /\ UNCHANGED <<page, username, dbpassword, error, screenshots, browser,
                   attempts, rows, has_real_data, rowReads, reachedAt, rowsAt,
                   location_idx, followup_idx, unprocessed_idx, error_headers,
                   ri, data, db_connection, dbVars>>

\* locate_fail without the screenshot
locate_fail_no_screenshot ==
    /\ pc = "locate"
    /\ fi > Len(page)
    /\ RaiseInTry("TableNotFound")
    /\ UNCHANGED <<page, username, dbpassword, screenshots, browser, scrapeVars,
                   db_connection, dbVars>>

\* if not table: screenshot, raise ValueError
locate_fail ==
    /\ pc = "locate"
    /\ fi > Len(page)
    /\ screenshots' = screenshots \cup {"no_table_found.png"}
    /\ RaiseInTry("TableNotFound")
    /\ UNCHANGED <<page, username, dbpassword, browser, scrapeVars,
                   db_connection, dbVars>>

(***************************************************************************)
(* scrape_table: polling until the table holds real data                   *)
(***************************************************************************)
TheTable == page[table[1]][table[2]]

\* 'tbody tr', and when there is none every tr that has a td
collect_rows(trs) ==
    LET inBody == SelectSeq(trs, LAMBDA r : r.body)
    IN  IF Len(inBody) = 0
        THEN SelectSeq(trs, LAMBDA r : Len(r.tds) > 0)
        ELSE inBody

\* cleaned.isdigit() and int(cleaned) > 0
cell_nonzero(cell) ==
    LET cleaned == Remove(Strip(cell.text), ",")
    IN  IsDigit(cleaned) /\ DigitsValue(cleaned) > 0

\* the cells the loops over rows and cells[1:] look at: <<row, cell>>, none in
\* a row with a single cell or no cell
numeric_cells(rs) ==
    UNION {{<<i, j>> : j \in 2..Len(rs[i].tds)} : i \in 1..Len(rs)}

\* total_nonzero after the loops
total_nonzero(rs) ==
    Cardinality({c \in numeric_cells(rs) : cell_nonzero(rs[c[1]].tds[c[2]])})

\* max(10, int(len(rows) * 0.05))
threshold(n) == Max2(10, n \div 20)

\* the test that leaves the poll loop
populated(rs) == Len(rs) > 0 /\ total_nonzero(rs) >= threshold(Len(rs))

\* poll_attempt testing the rows of the attempt before: it breaks one attempt late
poll_attempt_late ==
    /\ pc = "poll"
    /\ attempts < max_retries
    /\ \E snap \in TheTable.snaps :
          LET collected == collect_rows(snap)
          IN  /\ rows' = collected
              /\ rowReads' = rowReads + 1
              /\ attempts' = attempts + 1
              /\ IF populated(rows)
                 THEN /\ has_real_data' = TRUE
                      /\ pc' = "resolve"
                 ELSE /\ has_real_data' = FALSE
                      /\ pc' = "poll"
              /\ IF populated(collected) /\ reachedAt = 0
                 THEN reachedAt' = attempts + 1 /\ rowsAt' = collected
                 ELSE UNCHANGED <<reachedAt, rowsAt>>
    /\ UNCHANGED <<page, username, dbpassword, error, screenshots, browser,
                   fi, ti, table, location_idx, followup_idx, unprocessed_idx,
                   error_headers, ri, data, db_connection, dbVars>>

\* one iteration of the poll loop: collect the rows, count, break or sleep
poll_attempt ==
    /\ pc = "poll"
    /\ attempts < max_retries
    /\ \E snap \in TheTable.snaps :
          LET collected == collect_rows(snap)
          IN  /\ rows' = collected
              /\ rowReads' = rowReads + 1
              /\ attempts' = attempts + 1
              /\ IF populated(collected)
                 THEN /\ has_real_data' = TRUE
                      /\ pc' = "resolve"
                 ELSE /\ has_real_data' = FALSE
                      /\ pc' = "poll"
              /\ IF populated(collected) /\ reachedAt = 0
                 THEN reachedAt' = attempts + 1 /\ rowsAt' = collected
                 ELSE UNCHANGED <<reachedAt, rowsAt>>
    /\ UNCHANGED <<page, username, dbpassword, error, screenshots, browser,
                   fi, ti, table, location_idx, followup_idx, unprocessed_idx,
                   error_headers, ri, data, db_connection, dbVars>>

\* the else of the for loop: screenshot, raise ValueError
poll_exhausted ==
    /\ pc = "poll"
    /\ attempts >= max_retries
    /\ screenshots' = screenshots \cup {"empty_table_debug.png"}
    /\ RaiseInTry("TableNotPopulated")
    /\ UNCHANGED <<page, username, dbpassword, browser, scrapeVars,
                   db_connection, dbVars>>

(***************************************************************************)
(* scrape_table: resolving the columns                                     *)
(***************************************************************************)
\* h.replace('\n', ' ').strip().upper()
h_clean(h) == Upper(Strip(Replace(h, "\n", " ")))

is_location(h) == Contains(kLOCATION, h_clean(h))

\* is_followup with the locator's looser marker
is_followup_loose(h) == Contains(kFOLLOW, h_clean(h))

is_followup(h) ==
    Contains(kFOLLOW_UP, h_clean(h)) \/ Contains(kFOLLOW_UP_SP, h_clean(h))

is_unprocessed(h) == Contains(kUNPROCESSED, h_clean(h))

SetMax(S) == CHOOSE x \in S : \A y \in S : y <= x

\* the index the loop over enumerate(header_texts) leaves: the last match
last_index(hits) == IF hits = {} THEN NoIdx ELSE SetMax(hits) - 1

\* the positions i of enumerate(header_texts) whose header matches
location_hits(headers) == {i \in 1..Len(headers) : is_location(headers[i])}

followup_hits(headers) == {i \in 1..Len(headers) : is_followup(headers[i])}

unprocessed_hits(headers) == {i \in 1..Len(headers) : is_unprocessed(headers[i])}

\* resolve_columns going on to the rows with an index that is None
resolve_columns_no_check ==
    /\ pc = "resolve"
    /\ location_idx' = last_index(location_hits(TheTable.headers))
    /\ followup_idx' = last_index(followup_hits(TheTable.headers))
    /\ unprocessed_idx' = last_index(unprocessed_hits(TheTable.headers))
    /\ pc' = "extract"
    /\ UNCHANGED <<page, username, dbpassword, error, screenshots, browser, fi,
                   ti, table, attempts, rows, has_real_data, rowReads, reachedAt,
                   rowsAt, error_headers, ri, data, db_connection, dbVars>>

\* read the headers, find the three indices, raise when one is None
resolve_columns ==
    /\ pc = "resolve"
    /\ LET headers == TheTable.headers
           l == last_index(location_hits(headers))
           f == last_index(followup_hits(headers))
           u == last_index(unprocessed_hits(headers))
       IN  /\ location_idx' = l
           /\ followup_idx' = f
           /\ unprocessed_idx' = u
           /\ IF l = NoIdx \/ f = NoIdx \/ u = NoIdx
              THEN RaiseInTry("MissingColumns") /\ error_headers' = headers
              ELSE pc' = "extract" /\ error' = error
                   /\ error_headers' = error_headers
    /\ UNCHANGED <<page, username, dbpassword, screenshots, browser, fi, ti,
                   table, attempts, rows, has_real_data, rowReads, reachedAt,
                   rowsAt, ri, data, db_connection, dbVars>>

(***************************************************************************)
(* scrape_table: extracting the rows                                       *)
(***************************************************************************)
\* len(cells) > max(location_idx, followup_idx, unprocessed_idx)
enough_cells(r, l, f, u) == Len(r.tds) > Max2(l, Max2(f, u))

\* the text of p.location-name when the cell has one, else the cell's, stripped
location_of(cell) == IF cell.hasP THEN Strip(cell.p) ELSE Strip(cell.text)

\* parse_count leaving the commas in
parse_count_commas(cell) == PyInt(Remove(Strip(cell.text), " "))

\* int(text.strip().replace(',', '').replace(' ', ''))
parse_count(cell) == PyInt(Remove(Remove(Strip(cell.text), ","), " "))

\* the body of the loop over rows, for rows[ri + 1]; the cells it reads are
\* those of the row as the last poll attempt collected it
extract_row ==
    /\ pc = "extract"
    /\ ri < Len(rows)
    /\ LET r == rows[ri + 1]
       IN  IF enough_cells(r, location_idx, followup_idx, unprocessed_idx)
           THEN LET location == location_of(r.tds[location_idx + 1])
                    fu == parse_count(r.tds[followup_idx + 1])
                    un == parse_count(r.tds[unprocessed_idx + 1])
                IN  IF fu.ok /\ un.ok
                    THEN data' = Append(data, [location |-> location,
                                               followups |-> fu.val,
                                               unprocessed |-> un.val])
                    ELSE \* except ValueError: warning, continue
                         data' = data
           ELSE data' = data
    /\ ri' = ri + 1
    /\ UNCHANGED <<pc, page, username, dbpassword, error, screenshots, browser,
                   fi, ti, table, attempts, rows, has_real_data, rowReads,
                   reachedAt, rowsAt, location_idx, followup_idx,
                   unprocessed_idx, error_headers, db_connection, dbVars>>

\* extract_finish without the check for an empty data
extract_finish_no_check ==
    /\ pc = "extract"
    /\ ri >= Len(rows)
    /\ pc' = "save" /\ error' = error
    /\ UNCHANGED <<page, username, dbpassword, screenshots, browser, scrapeVars,
                   db_connection, dbVars>>

\* after the loop: raise when data is empty, else return data
extract_finish ==
    /\ pc = "extract"
    /\ ri >= Len(rows)
    /\ IF data = <<>>
       THEN RaiseInTry("NoValidData")
       ELSE pc' = "save" /\ error' = error
    /\ UNCHANGED <<page, username, dbpassword, screenshots, browser, scrapeVars,
                   db_connection, dbVars>>

(***************************************************************************)
(* save_to_database                                                        *)
(***************************************************************************)
\* truncate_table without the commit after the truncate
truncate_table_no_commit ==
    /\ pc = "save"
    /\ \E ok \in BOOLEAN :
          IF ok
          THEN /\ cursor' = "open"
               /\ working' = TruncateSP(working)
               /\ pending' = TRUE
               /\ pc' = "insert"
               /\ error' = error
               /\ UNCHANGED <<committed, truncated, commits>>
          ELSE /\ cursor' = "closed"
               /\ RaiseInTry("TruncateFailed")
               /\ UNCHANGED <<working, committed, truncated, commits, pending>>
    /\ UNCHANGED <<page, username, dbpassword, screenshots, browser, scrapeVars,
                   db_connection, writes, si, inserted, failed,
                   locations_without_lcode, known, faults, outcomes, report,
                   report_more>>

\* cursor(), snapshot_time, the truncate procedure and its commit
truncate_table ==
    /\ pc = "save"
    /\ \E ok \in BOOLEAN :
          IF ok
          THEN /\ cursor' = "open"
               /\ working' = TruncateSP(working)
               /\ committed' = TruncateSP(working)
               /\ truncated' = TRUE
               /\ commits' = commits + 1
               /\ pending' = FALSE
               /\ pc' = "insert"
               /\ error' = error
          ELSE \* the execute raises: re-raised, the finally closes the cursor
               /\ cursor' = "closed"
               /\ RaiseInTry("TruncateFailed")
               /\ UNCHANGED <<working, committed, truncated, commits, pending>>
    /\ UNCHANGED <<page, username, dbpassword, screenshots, browser, scrapeVars,
                   db_connection, writes, si, inserted, failed,
                   locations_without_lcode, known, faults, outcomes, report,
                   report_more>>

\* the outcomes the write of a record can have: a code exactly for a known
\* location, a fault while the run's faults allow one
possible(outcome, record) ==
    /\ outcome = "code" => record.location \in known
    /\ outcome = "nocode" => record.location \notin known
    /\ outcome \in Faults => faults < MaxFaults

\* what the write procedure leaves in the transaction for data[si + 1]
written(record, lcode) ==
    InsertSP(working, snapshot_time, si + 1, record, lcode)

\* if result: with an Lcode: inserted += 1, commit
on_code(record) ==
    /\ inserted' = inserted + 1
    /\ working' = written(record, "resolved")
    /\ committed' = written(record, "resolved")
    /\ commits' = commits + 1
    /\ pending' = FALSE
    /\ UNCHANGED <<failed, locations_without_lcode>>

\* if result: with Lcode None: append the name, rollback, failed += 1
on_nocode(record) ==
    /\ locations_without_lcode' =
           Append(locations_without_lcode, record.location)
    /\ working' = committed
    /\ pending' = FALSE
    /\ failed' = failed + 1
    /\ UNCHANGED <<inserted, committed, commits>>

\* fetchone() gave None: the if has no else, so no commit, no rollback and
\* no counter; wrote tells whether the procedure had stored its row
on_norow(record, wrote) ==
    /\ working' = IF wrote THEN written(record, "unknown") ELSE working
    /\ pending' = TRUE
    /\ UNCHANGED <<inserted, failed, committed, commits,
                   locations_without_lcode>>

\* on_error without the failed += 1
on_error_uncounted(record) ==
    /\ working' = committed
    /\ pending' = FALSE
    /\ UNCHANGED <<inserted, failed, committed, commits,
                   locations_without_lcode>>

\* except Exception: rollback, failed += 1
on_error(record) ==
    /\ working' = committed
    /\ pending' = FALSE
    /\ failed' = failed + 1
    /\ UNCHANGED <<inserted, committed, commits, locations_without_lcode>>

\* the body of the loop over data, for data[si + 1]
insert_record ==
    /\ pc = "insert"
    /\ si < Len(data)
    /\ \E outcome \in Outcomes :
          LET record == data[si + 1]
          IN  /\ possible(outcome, record)
              /\ outcomes' = Append(outcomes, outcome)
              /\ faults' = IF outcome \in Faults THEN faults + 1 ELSE faults
              /\ CASE outcome = "code" -> on_code(record)
                   [] outcome = "nocode" -> on_nocode(record)
                   [] outcome = "norow" -> on_norow(record, TRUE)
                   [] outcome = "norow_nowrite" -> on_norow(record, FALSE)
                   [] outcome = "error" -> on_error(record)
    /\ writes' = writes + 1
    /\ si' = si + 1
    /\ UNCHANGED <<pc, page, username, dbpassword, error, screenshots, browser,
                   scrapeVars, db_connection, cursor, truncated, known, report,
                   report_more>>

\* the warning printing every name
printed_all(names) == names

\* locations_without_lcode[:10], the names the warning prints
printed(names) ==
    SubSeq(names, 1, IF Len(names) > report_limit THEN report_limit
                     ELSE Len(names))

\* len(locations_without_lcode) - 10 of the "... and N more" line, when printed
more(names) ==
    IF Len(names) > report_limit THEN Len(names) - report_limit ELSE 0

\* after the loop: the summary, the finally closing the cursor, the warning
save_finish ==
    /\ pc = "insert"
    /\ si >= Len(data)
    /\ cursor' = "closed"
    /\ report' = printed(locations_without_lcode)
    /\ report_more' = more(locations_without_lcode)
    /\ pc' = "browser_close"
    /\ UNCHANGED <<page, username, dbpassword, error, screenshots, browser,
                   scrapeVars, db_connection, committed, working, truncated,
                   writes, si, inserted, failed, locations_without_lcode, known,
                   faults, outcomes, commits, pending>>

(***************************************************************************)
(* run(): the two finally blocks                                           *)
(***************************************************************************)
browser_close ==
    /\ pc = "browser_close"
    /\ browser' = "closed"
    /\ pc' = "playwright_exit"
    /\ UNCHANGED <<page, username, dbpassword, error, screenshots, scrapeVars,
                   db_connection, dbVars>>

\* the end of the async with block: no statement of run() closes the browser
playwright_exit ==
    /\ pc = "playwright_exit"
    /\ pc' = "db_close"
    /\ UNCHANGED <<page, username, dbpassword, error, screenshots, browser,
                   scrapeVars, db_connection, dbVars>>

\* if self.db_connection: close(), which drops what was not committed
db_close ==
    /\ pc = "db_close"
    /\ IF db_connection = "open"
       THEN db_connection' = "closed" /\ working' = committed
            /\ pending' = FALSE
       ELSE UNCHANGED <<db_connection, working, pending>>
    /\ pc' = "done"
    /\ UNCHANGED <<page, username, dbpassword, error, screenshots, browser,
                   scrapeVars, cursor, committed, truncated, writes, si,
                   inserted, failed, locations_without_lcode, known, faults,
                   outcomes, commits, report, report_more>>

Next ==
    \/ get_credentials
    \/ get_db_connection
    \/ launch_browser
    \/ new_context
    \/ new_page
    \/ login
    \/ except_timeout
    \/ locate_step
    \/ locate_fail
    \/ poll_attempt
    \/ poll_exhausted
    \/ resolve_columns
    \/ extract_row
    \/ extract_finish
    \/ truncate_table
    \/ insert_record
    \/ save_finish
    \/ browser_close
    \/ playwright_exit
    \/ db_close

Spec == Init /\ [][Next]_vars

(***************************************************************************)
(* Properties                                                              *)
(***************************************************************************)
\* the tables of the page, as <<frame, index>>
Positions == UNION {{<<f, t>> : t \in 1..Len(page[f])} : f \in 1..Len(page)}

Before(a, b) == a[1] < b[1] \/ (a[1] = b[1] /\ a[2] < b[2])

\* the header texts, joined and upper-cased, contain both substrings
Qualifies(q) ==
    LET text == Upper(Join(page[q[1]][q[2]].headers))
    IN  Contains(kLOCATION, text) /\ Contains(kFOLLOW, text)

NoQualifying == \A q \in Positions : ~Qualifies(q)

\* C1: the table selected is the first, in frame order and then document
\* order, whose joined upper-cased header text contains LOCATION and FOLLOW;
\* a table lacking either is never selected, and while the scan runs every
\* table it has passed lacks one of the two.
C1_FirstQualifyingTableSelected ==
    /\ table # <<>> =>
          /\ table \in Positions
          /\ Qualifies(table)
          /\ \A q \in Positions : Before(q, table) => ~Qualifies(q)
    /\ (pc = "locate" /\ table = <<>>) =>
          \A q \in Positions : Before(q, <<fi, ti>>) => ~Qualifies(q)
    /\ pc \in {"poll", "resolve", "extract", "save", "insert"} => table # <<>>
    /\ error = "TableNotFound" => NoQualifying

\* a qualifying table was selected although a non-qualifying table precedes it
\* and another qualifying table follows it
C1_Witness ==
    /\ table # <<>>
    /\ pc = "poll"
    /\ \E q \in Positions : Before(q, table)
    /\ \E q \in Positions : Before(table, q) /\ Qualifies(q)

BeforeScrape ==
    {"CredentialsMissing", "DbCredentialsMissing", "PlaywrightError",
     "LoginTimeout"}

\* C2: when no frame holds a qualifying table, scrape_table fails with
\* TableNotFound, the screenshot no_table_found.png has been taken when the
\* error is raised, and the run polls nothing, reads no row and writes nothing
\* to the database.
C2_NoTableFailsWithScreenshot ==
    /\ error = "TableNotFound" =>
          /\ NoQualifying
          /\ "no_table_found.png" \in screenshots
          /\ attempts = 0 /\ rowReads = 0 /\ rows = <<>> /\ ri = 0
          /\ writes = 0 /\ ~truncated
          /\ committed = {OldRow} /\ working = {OldRow}
    /\ NoQualifying =>
          /\ pc \notin {"poll", "resolve", "extract", "save", "insert"}
          /\ pc = "done" => error \in BeforeScrape \cup {"TableNotFound"}

C2_Witness == pc = "done" /\ error = "TableNotFound" /\ db_connection = "closed"

\* fewer than max(10, 0.05 * N) non-zero cells among N rows
BelowClaimed(rs) ==
    total_nonzero(rs) < 10 \/ 20 * total_nonzero(rs) < Len(rs)

\* C3: rows with fewer than max(10, 0.05 * N) non-zero numeric cells never
\* make the poll report populated; the loop ends after exactly 20 attempts
\* with TableNotPopulated and the screenshot empty_table_debug.png.
C3_BelowThresholdNeverPopulated ==
    /\ has_real_data => ~BelowClaimed(rows)
    /\ error = "TableNotPopulated" =>
          /\ attempts = 20
          /\ "empty_table_debug.png" \in screenshots
          /\ ~has_real_data

CeilDiv(n, d) == (n + d - 1) \div d

\* C4: after each attempt the table counts as populated exactly when the
\* non-zero cells number at least max(10, ceil(0.05 * rowCount)).
C4_PopulatedIffCeilThreshold ==
    (attempts >= 1 /\ pc \in {"poll", "resolve"}) =>
        (has_real_data <=>
            total_nonzero(rows) >= Max2(10, CeilDiv(Len(rows), 20)))

\* C5: once an attempt k has met the threshold the poll loop has ended with
\* success after exactly k attempts and k collections of the rows, and the
\* rows the extraction goes through are the rows collected on attempt k.
C5_SucceedsAtFirstPopulatedAttempt ==
    /\ reachedAt \in 0..max_retries
    /\ reachedAt # 0 =>
          /\ has_real_data
          /\ pc # "poll"
          /\ attempts = reachedAt
          /\ rowReads = reachedAt
          /\ rows = rowsAt
          /\ error # "TableNotPopulated"
    /\ (has_real_data \/ pc \in {"resolve", "extract"}) => reachedAt # 0

\* the threshold was first met on the last attempt allowed, and rows were
\* extracted
C5_Witness ==
    /\ reachedAt = max_retries
    /\ pc = "extract"
    /\ ri = Len(rows)
    /\ data # <<>>

AllResolved ==
    location_idx # NoIdx /\ followup_idx # NoIdx /\ unprocessed_idx # NoIdx

\* C6 as stated: no row of the table is read before the three indices are
\* resolved, and MissingColumns is raised without any row read or poll.
C6_NoRowReadBeforeColumnsResolved ==
    /\ rowReads > 0 => AllResolved
    /\ error = "MissingColumns" => rowReads = 0 /\ attempts = 0

\* C6 as amended: no row is extracted before the three indices are resolved;
\* MissingColumns is raised before any row is extracted, and after the poll
\* loop has read the rows and found them populated.
C6_NoRowExtractedBeforeColumnsResolved ==
    /\ (pc = "extract" \/ ri > 0 \/ data # <<>>) => AllResolved
    /\ error = "MissingColumns" =>
          /\ ~AllResolved
          /\ ri = 0 /\ data = <<>> /\ writes = 0
          /\ has_real_data /\ rowReads >= 1 /\ rowReads = attempts

C6_Witness ==
    /\ error = "MissingColumns"
    /\ pc = "done"
    /\ rowReads >= 2
    /\ unprocessed_idx = NoIdx /\ location_idx # NoIdx

\* a header, newlines replaced by spaces, trimmed, upper-cased, contains one
\* of the markers
Matches(h, markers) ==
    \E m \in markers : Contains(m, Upper(Strip(Replace(h, "\n", " "))))

SomeHeader(headers, markers) ==
    \E i \in 1..Len(headers) : Matches(headers[i], markers)

AllMatched(headers) ==
    /\ SomeHeader(headers, {kLOCATION})
    /\ SomeHeader(headers, {kFOLLOW_UP, kFOLLOW_UP_SP})
    /\ SomeHeader(headers, {kUNPROCESSED})

ResolveRan == has_real_data /\ pc # "resolve"

\* C7: column resolution fails with MissingColumns exactly when one of the
\* three markers has no matching header, and it names the header texts seen;
\* otherwise the three indices are
\* resolved, each to a header matching its marker, and extraction goes on.
C7_MissingColumnsIffUnmatched ==
    /\ error = "MissingColumns" <=> (ResolveRan /\ ~AllMatched(TheTable.headers))
    /\ error = "MissingColumns" => error_headers = TheTable.headers
    /\ (ResolveRan /\ AllMatched(TheTable.headers)) =>
          /\ AllResolved
          /\ Matches(TheTable.headers[location_idx + 1], {kLOCATION})
          /\ Matches(TheTable.headers[followup_idx + 1],
                     {kFOLLOW_UP, kFOLLOW_UP_SP})
          /\ Matches(TheTable.headers[unprocessed_idx + 1], {kUNPROCESSED})
          /\ pc = "extract" \/ ri = Len(rows)

\* the located table has a FOLLOW header that is no FOLLOW-UP header
C7_Witness ==
    /\ error = "MissingColumns"
    /\ followup_idx = NoIdx /\ location_idx # NoIdx /\ unprocessed_idx # NoIdx
    /\ SomeHeader(TheTable.headers, {kFOLLOW})

\* the text parses as an integer once commas and spaces are removed
Parses(text) == PyInt(Remove(Remove(text, ","), " ")).ok

Parsed(text) == PyInt(Remove(Remove(text, ","), " ")).val

Kept(r) ==
    /\ Len(r.tds) >= location_idx + 1
    /\ Len(r.tds) >= followup_idx + 1
    /\ Len(r.tds) >= unprocessed_idx + 1
    /\ Parses(r.tds[followup_idx + 1].text)
    /\ Parses(r.tds[unprocessed_idx + 1].text)

\* one record for each kept row, in row order
Expected(rs) ==
    LET kept == SelectSeq(rs, Kept)
    IN  [i \in 1..Len(kept) |->
            [location |-> location_of(kept[i].tds[location_idx + 1]),
             followups |-> Parsed(kept[i].tds[followup_idx + 1].text),
             unprocessed |-> Parsed(kept[i].tds[unprocessed_idx + 1].text)]]

Normalized(s) ==
    /\ \A i \in 1..Len(s) : s[i] \notin {"\n", "\t"}
    /\ s = Strip(s)
    /\ \A i \in 1..(Len(s) - 1) : ~(s[i] = " " /\ s[i + 1] = " ")

\* C9: every record has a non-empty, whitespace-normalized location and
\* non-negative followups and unprocessed.
C9_RecordsNormalizedNonNegative ==
    \A i \in 1..Len(data) :
        /\ data[i].location # <<>>
        /\ Normalized(data[i].location)
        /\ data[i].followups >= 0
        /\ data[i].unprocessed >= 0

AfterSave == pc \in {"browser_close", "playwright_exit", "db_close", "done"}

\* save_to_database returned without raising
SaveDone == AfterSave /\ truncated /\ error = "none"

\* the table holds a committed row of record j
Persisted(j) == \E r \in committed : r.id = j

\* C11: before the write of the next record begins the write of the record
\* before it has been committed or rolled back, whatever its outcome, and a
\* record is persisted only by its own outcome.
C11_EachWriteCommittedOrRolledBack ==
    /\ (pc = "insert" /\ si < Len(data)) => ~pending
    /\ \A j \in 1..Len(outcomes) : Persisted(j) => outcomes[j] = "code"

\* the names of the records among the first k whose Lcode was absent, in order
RECURSIVE UnresolvedNames(_)
UnresolvedNames(k) ==
    IF k = 0 THEN <<>>
    ELSE IF outcomes[k] = "nocode"
         THEN Append(UnresolvedNames(k - 1), data[k].location)
         ELSE UnresolvedNames(k - 1)

\* how often the name is in the sequence of names
Occurrences(name, names) ==
    Cardinality({k \in 1..Len(names) : names[k] = name})

\* C12 as stated: when save_to_database has returned, no record whose Lcode
\* was absent is persisted and the name of each is in the printed report
\* exactly once, however many they are.
C12_UnresolvedReportedOnce ==
    SaveDone =>
        \A j \in 1..Len(outcomes) :
            outcomes[j] = "nocode" =>
                /\ ~Persisted(j)
                /\ Occurrences(data[j].location, report) = 1

\* C12 as amended: no record whose Lcode was absent is persisted, the names
\* of these records are collected once each in record order, and the
\* warning prints the first report_limit of them and counts the others.
C12_UnresolvedCollectedOnceFirstTenPrinted ==
    /\ \A j \in 1..Len(outcomes) : outcomes[j] = "nocode" => ~Persisted(j)
    /\ locations_without_lcode = UnresolvedNames(Len(outcomes))
    /\ SaveDone =>
          /\ Len(report) <= report_limit
          /\ report = SubSeq(locations_without_lcode, 1, Len(report))
          /\ report_more = Len(locations_without_lcode) - Len(report)
          /\ report_more > 0 => Len(report) = report_limit

\* more records without an Lcode than the warning prints names
C12_Witness ==
    /\ SaveDone
    /\ Len(locations_without_lcode) > report_limit
    /\ report_more >= 1
    /\ committed = {}

\* C13: when the write of a record raises, the write is rolled back and
\* failed goes up by one, the loop goes on with the next record, and
\* save_to_database returns without raising after a write for every record.
C13_WriteErrorRecoveredLocally ==
    /\ [][(pc = "insert" /\ outcomes' = Append(outcomes, "error")) =>
             /\ working' = committed /\ committed' = committed
             /\ ~pending'
             /\ failed' = failed + 1 /\ inserted' = inserted
             /\ si' = si + 1
             /\ pc' = "insert" /\ error' = error]_vars
    /\ [](\A j \in 1..Len(outcomes) :
              outcomes[j] = "error" => failed >= 1 /\ ~Persisted(j))
    /\ []((AfterSave /\ truncated /\ error # "TruncateFailed") =>
              /\ error = "none"
              /\ si = Len(data) /\ writes = Len(data)
              /\ Len(outcomes) = Len(data))

\* a write raised and the write after it was committed
C13_Witness ==
    /\ pc = "done" /\ error = "none"
    /\ \E j \in 1..(Len(outcomes) - 1) :
          outcomes[j] = "error" /\ outcomes[j + 1] = "code" /\ Persisted(j + 1)
    /\ failed >= 1

Fatal ==
    {"CredentialsMissing", "LoginTimeout", "TableNotFound",
     "TableNotPopulated", "MissingColumns", "NoValidData"}

\* C14 as stated: a run that ends with one of the six fatal errors has
\* written a diagnostic artifact.
C14_FatalErrorWritesArtifact ==
    (pc = "done" /\ error \in Fatal) => screenshots # {}

\* the screenshot run() or scrape_table writes for the error, if any
ArtifactOf(kind) ==
    CASE kind = "LoginTimeout" -> {"error_screenshot"}
      [] kind = "TableNotFound" -> {"no_table_found.png"}
      [] kind = "TableNotPopulated" -> {"empty_table_debug.png"}
      [] OTHER -> {}

\* C14 as amended: an error, once raised, is the one the run ends with; no
\* step of login, scrape_table or save_to_database runs after it; a
\* screenshot is written for LoginTimeout, TableNotFound and
\* TableNotPopulated only, none for the other kinds.
C14_FatalErrorAbortsArtifactForThreeKinds ==
    /\ [][error # "none" => error' = error]_vars
    /\ [](error # "none" =>
             pc \in {"except_timeout", "browser_close", "playwright_exit",
                     "db_close", "done"})
    /\ []((pc = "done" /\ error # "none") => screenshots = ArtifactOf(error))
    /\ []((pc = "done" /\ error = "none") => screenshots = {})

\* a run ended with MissingColumns and no screenshot
C14_Witness ==
    /\ pc = "done"
    /\ error = "MissingColumns"
    /\ screenshots = {}
    /\ browser = "closed"

\* C15: when run() has returned or raised, the browser, the connection and
\* the cursor have each been released if they were acquired.
C15_ResourcesReleasedAtExit ==
    pc = "done" =>
        /\ browser # "open"
        /\ db_connection # "open"
        /\ cursor # "open"

\* C16: when every write of a save_to_database run failed, by an error or
\* an absent Lcode, no commit was issued on the connection.
C16_NoCommitWhenAllInsertsFail ==
    (SaveDone /\ \A j \in 1..Len(outcomes) : outcomes[j] \in {"error", "nocode"})
        => commits = 0

\* the value of the text without commas and surrounding whitespace, 0 when
\* what is left is not a string of digits
ValueOrZero(text) ==
    LET t == Strip(Remove(text, ","))
    IN  IF IsDigit(t) THEN DigitsValue(t) ELSE 0

EnoughCells(r) ==
    enough_cells(r, location_idx, followup_idx, unprocessed_idx)

\* one record for each row with enough cells, a malformed count being 0
ExpectedDefaulted(rs) ==
    LET kept == SelectSeq(rs, EnoughCells)
    IN  [i \in 1..Len(kept) |->
            [location |-> location_of(kept[i].tds[location_idx + 1]),
             followups |-> ValueOrZero(kept[i].tds[followup_idx + 1].text),
             unprocessed |-> ValueOrZero(kept[i].tds[unprocessed_idx + 1].text)]]

\* C17: every row with enough cells gives a record, whose counts are the
\* integer values of the cell texts without commas and surrounding
\* whitespace, and 0 for a text that is empty or not a string of digits.
C17_MalformedCountDefaultsToZero ==
    (AllResolved /\ pc = "extract") =>
        data = ExpectedDefaulted(SubSeq(rows, 1, ri))

\* C18: when save_to_database has returned, the write procedure was called
\* once for every record, in order, and inserted + failed is the number of
\* records.
C18_EveryRecordCounted ==
    SaveDone =>
        /\ writes = Len(data) /\ Len(outcomes) = Len(data)
        /\ inserted + failed = Len(data)

\* C19: a truncate or a write is issued only after scrape_table has
\* returned at least one record; a run with one of the six fatal errors has
\* issued no truncate, no write and no commit, and the table is as before.
C19_TruncateOnlyAfterScrapeSucceeded ==
    /\ (truncated \/ writes > 0 \/ commits > 0 \/ cursor # "none") =>
          /\ data # <<>> /\ ri = Len(rows) /\ AllResolved
          /\ error \in {"none", "TruncateFailed"}
    /\ error \in Fatal =>
          /\ ~truncated /\ writes = 0 /\ commits = 0
          /\ committed = {OldRow} /\ working = {OldRow}

\* a run ended with NoValidData and the table as it was
C19_Witness ==
    /\ pc = "done"
    /\ error = "NoValidData"
    /\ ri = Len(rows) /\ Len(rows) > 0
    /\ committed = {OldRow}

====
